---------------------------- MODULE Spec2Model ----------------------------
(***************************************************************************)
(* Model of script_to_clipboard.py: parse_script (a line-oriented scan of  *)
(* a script into a page table), list_pages, copy_page_dialogues and main.  *)
(*                                                                         *)
(* A text is a sequence of characters.  A character is a short string; the *)
(* non-ASCII characters of the script format are written by name:          *)
(*   LB = U+3010 (left black lenticular bracket, opens a page marker)      *)
(*   RB = U+3011 (right black lenticular bracket)                          *)
(*   OQ = U+300C (left corner bracket, opens a quotation)                  *)
(*   CQ = U+300D (right corner bracket, closes a quotation)                *)
(*   FP = U+FF08 (fullwidth left parenthesis, opens a stage direction)     *)
(*   IS = U+3000 (ideographic space, whitespace for strip() and \s)        *)
(*   NL = line feed                                                        *)
(***************************************************************************)
EXTENDS Integers, Sequences, FiniteSets, TLC

VARIABLES
    exists,         \* Path(args.script_file).exists()
    content,        \* the text of the script file
    argList,        \* args.list
    argPage,        \* args.page: <<>> is None, <<n>> is the integer n
    pc,             \* position of the run: start, parse, parsed, done
    lines,          \* content.split('\n')
    idx,            \* index of the line the for loop of parse_script is at
    pages,          \* the dict pages: page number -> list of dialogues
    pageKeys,       \* insertion order of the keys of the dict pages
    current_page,   \* <<>> is None, <<n>> is the integer n
    out,            \* what was printed, in order
    clipboard,      \* the texts copy_to_clipboard was called with, in order
    exitCode        \* status of the process: 1 after sys.exit(1), else 0

vars == <<exists, content, argList, argPage, pc, lines, idx, pages, pageKeys,
          current_page, out, clipboard, exitCode>>

parseVars == <<lines, idx, pages, pageKeys, current_page>>
argVars == <<exists, content, argList, argPage>>

-----------------------------------------------------------------------------
(* Characters *)

LB == "LB"
RB == "RB"
OQ == "OQ"
CQ == "CQ"
FP == "FP"
IS == "IS"
NL == "NL"

IsSpace(c) == c \in {" ", IS}
IsDigit(c) == c \in {"0", "1", "2", "3", "4", "5", "6", "7", "8", "9"}

DigitVal(c) ==
    CASE c = "0" -> 0 [] c = "1" -> 1 [] c = "2" -> 2 [] c = "3" -> 3
      [] c = "4" -> 4 [] c = "5" -> 5 [] c = "6" -> 6 [] c = "7" -> 7
      [] c = "8" -> 8 [] c = "9" -> 9

\* int(s) for a non-empty string of digits
RECURSIVE ToInt(_)
ToInt(s) ==
    IF s = <<>> THEN 0
    ELSE 10 * ToInt(SubSeq(s, 1, Len(s) - 1)) + DigitVal(s[Len(s)])

-----------------------------------------------------------------------------
(* content.split('\n') *)

\* the position of the first line feed at or after position i, or 0
NextNL(text, i) ==
    LET at == {j \in i..Len(text) : text[j] = NL}
    IN  IF at = {} THEN 0 ELSE CHOOSE j \in at : \A k \in at : j <= k

RECURSIVE SplitFrom(_, _)
SplitFrom(text, i) ==
    LET j == NextNL(text, i)
    IN  IF j = 0 THEN <<SubSeq(text, i, Len(text))>>
        ELSE <<SubSeq(text, i, j - 1)>> \o SplitFrom(text, j + 1)

Split(text) == SplitFrom(text, 1)

-----------------------------------------------------------------------------
(* page_pattern.search(line), page_pattern = 【Page\s*(\d+)】 *)

RECURSIVE SkipSpaces(_, _)
SkipSpaces(line, i) ==
    IF i <= Len(line) /\ IsSpace(line[i]) THEN SkipSpaces(line, i + 1) ELSE i

RECURSIVE SkipDigits(_, _)
SkipDigits(line, i) ==
    IF i <= Len(line) /\ IsDigit(line[i]) THEN SkipDigits(line, i + 1) ELSE i

\* the pattern matched at position i: <<int(group(1))>>, or <<>> for no match
PageMatchAt(line, i) ==
    IF /\ i + 4 <= Len(line)
       /\ line[i] = LB
       /\ line[i + 1] = "P" /\ line[i + 2] = "a"
       /\ line[i + 3] = "g" /\ line[i + 4] = "e"
    THEN LET j == SkipSpaces(line, i + 5)
             k == SkipDigits(line, j)
         IN  IF k > j /\ k <= Len(line) /\ line[k] = RB
             THEN <<ToInt(SubSeq(line, j, k - 1))>>
             ELSE <<>>
    ELSE <<>>

RECURSIVE PageSearchFrom(_, _)
PageSearchFrom(line, i) ==
    IF i > Len(line) THEN <<>>
    ELSE LET m == PageMatchAt(line, i)
         IN  IF m # <<>> THEN m ELSE PageSearchFrom(line, i + 1)

RECURSIVE PageSearchBack(_, _)
PageSearchBack(line, i) ==
    IF i < 1 THEN <<>>
    ELSE LET m == PageMatchAt(line, i)
         IN  IF m # <<>> THEN m ELSE PageSearchBack(line, i - 1)

\* a search that returns the rightmost match of the line
PageSearchLast(line) == PageSearchBack(line, Len(line))

\* search: the leftmost match
PageSearch(line) == PageSearchFrom(line, 1)

-----------------------------------------------------------------------------
(* line.strip().startswith('（') or line.strip().startswith('[') *)

\* startswith without strip()
IsAnnotationNoStrip(line) ==
    Len(line) >= 1 /\ (line[1] = FP \/ line[1] = "[")

\* only the stage-direction test
IsAnnotationParenOnly(line) ==
    LET i == SkipSpaces(line, 1)
    IN  i <= Len(line) /\ line[i] = FP

IsAnnotation(line) ==
    LET i == SkipSpaces(line, 1)
    IN  i <= Len(line) /\ (line[i] = FP \/ line[i] = "[")

-----------------------------------------------------------------------------
(* re.search(r'.+「([^」]+)」', line) *)

RECURSIVE SkipNonClose(_, _)
SkipNonClose(line, i) ==
    IF i <= Len(line) /\ line[i] # CQ THEN SkipNonClose(line, i + 1) ELSE i

\* 「([^」]+)」 matched at position o: <<group(1)>>, or <<>> for no match
QuoteAt(line, o) ==
    IF o <= Len(line) /\ line[o] = OQ
    THEN LET c == SkipNonClose(line, o + 1)
         IN  IF c > o + 1 /\ c <= Len(line)
             THEN <<SubSeq(line, o + 1, c - 1)>>
             ELSE <<>>
    ELSE <<>>

\* .+ is greedy: it takes line[s..e] for the largest e first and gives
\* characters back one at a time until the rest of the pattern matches
RECURSIVE DotPlus(_, _, _)
DotPlus(line, s, e) ==
    IF e < s THEN <<>>
    ELSE LET m == QuoteAt(line, e + 1)
         IN  IF m # <<>> THEN m ELSE DotPlus(line, s, e - 1)

RECURSIVE DialogueSearchFrom(_, _)
DialogueSearchFrom(line, s) ==
    IF s > Len(line) THEN <<>>
    ELSE LET m == DotPlus(line, s, Len(line))
         IN  IF m # <<>> THEN m ELSE DialogueSearchFrom(line, s + 1)

\* .+? in place of .+: the leading text is as short as possible
RECURSIVE DotPlusLazy(_, _)
DotPlusLazy(line, e) ==
    IF e > Len(line) THEN <<>>
    ELSE LET m == QuoteAt(line, e + 1)
         IN  IF m # <<>> THEN m ELSE DotPlusLazy(line, e + 1)

DialogueSearchLazy(line) == DotPlusLazy(line, 1)

DialogueSearch(line) == DialogueSearchFrom(line, 1)

-----------------------------------------------------------------------------
(* the dict pages *)

\* pages[current_page] = [] without the membership test
AddPageReset(pg, n) ==
    [k \in DOMAIN pg \cup {n} |-> IF k = n THEN <<>> ELSE pg[k]]

\* if current_page not in pages: pages[current_page] = []
AddPage(pg, n) == IF n \in DOMAIN pg THEN pg ELSE pg @@ (n :> <<>>)

AddKey(keys, n) ==
    IF \E i \in 1..Len(keys) : keys[i] = n THEN keys ELSE Append(keys, n)

\* pages[current_page].insert(0, dialogue)
AppendDialogueFront(pg, p, d) == [pg EXCEPT ![p] = <<d>> \o @]

\* pages[current_page].append(dialogue)
AppendDialogue(pg, p, d) == [pg EXCEPT ![p] = Append(@, d)]

\* pages.keys() without sorted()
InsertionOrder(keys) == keys

\* sorted(pages.keys())
RECURSIVE Insert(_, _)
Insert(s, n) ==
    IF s = <<>> THEN <<n>>
    ELSE IF n <= Head(s) THEN <<n>> \o s
    ELSE <<Head(s)>> \o Insert(Tail(s), n)

RECURSIVE Sorted(_)
Sorted(keys) ==
    IF keys = <<>> THEN <<>>
    ELSE Insert(Sorted(Tail(keys)), Head(keys))

-----------------------------------------------------------------------------
(* printed messages *)

Msg(kind, page, count, nums, text) ==
    [kind |-> kind, page |-> page, count |-> count, nums |-> nums, text |-> text]

DisplayMax == 30

\* dialogue[:30] + "..." if len(dialogue) > 30 else dialogue
Display(d) ==
    IF Len(d) > DisplayMax
    THEN SubSeq(d, 1, DisplayMax) \o <<".", ".", ".">>
    ELSE d

\* '\n'.join(dialogues)
RECURSIVE JoinDialoguesSingle(_)
JoinDialoguesSingle(ds) ==
    IF ds = <<>> THEN <<>>
    ELSE IF Len(ds) = 1 THEN ds[1]
    ELSE ds[1] \o <<NL>> \o JoinDialoguesSingle(Tail(ds))

\* '\n\n'.join(dialogues)
RECURSIVE JoinDialogues(_)
JoinDialogues(ds) ==
    IF ds = <<>> THEN <<>>
    ELSE IF Len(ds) = 1 THEN ds[1]
    ELSE ds[1] \o <<NL, NL>> \o JoinDialogues(Tail(ds))

\* the lines list_pages prints for one page
RECURSIVE ListItems(_, _, _)
ListItems(p, ds, i) ==
    IF i > Len(ds) THEN <<>>
    ELSE <<Msg("ListItem", p, i, <<>>, Display(ds[i]))>> \o ListItems(p, ds, i + 1)

RECURSIVE ListOutput(_, _)
ListOutput(pg, order) ==
    IF order = <<>> THEN <<>>
    ELSE LET p == Head(order)
         IN  <<Msg("ListPage", p, Len(pg[p]), <<>>, <<>>)>>
             \o ListItems(p, pg[p], 1)
             \o ListOutput(pg, Tail(order))

\* list_pages(pages)
ListPagesOutput(pg, keys) ==
    <<Msg("ListHeader", 0, 0, <<>>, <<>>)>> \o ListOutput(pg, Sorted(keys))

-----------------------------------------------------------------------------
(* inputs *)

MaxLines == 4
MaxMainLines == 3

Page == <<"P", "a", "g", "e">>
XLong == <<"x", "x", "x", "x", "x", "x", "x", "x", "x", "x", "x">>

LineMarker1 == <<LB>> \o Page \o <<" ", "1", RB>>
LineMarker02 == <<LB>> \o Page \o <<"0", "2", RB>>
LineTwoMarkers == <<LB>> \o Page \o <<IS, "3", RB, LB>> \o Page \o <<" ", "4", RB>>
LineAnnotMarker == <<"[", LB>> \o Page \o <<" ", "3", RB>>
LineDialogue == <<"A", OQ, "h", "i", CQ>>
LineTwoSpans == <<"B", OQ, "a", CQ, "C", OQ, "b", CQ>>
LineStageDir == <<FP, "A", OQ, "s", CQ>>
LinePanel == <<IS, "[", "A", OQ, "p", CQ>>
LineNoLabel == <<OQ, "q", CQ>>
LineLong == <<"L", OQ>> \o XLong \o XLong \o XLong \o <<CQ>>

ParsePool == {LineMarker1, LineMarker02, LineTwoMarkers, LineAnnotMarker,
              LineDialogue, LineTwoSpans, LineStageDir, LinePanel, LineNoLabel}

MainPool == {LineMarker1, LineMarker02, LineDialogue, LineLong, LineStageDir,
             LineNoLabel}

PageArgs == {<<>>, <<1>>, <<2>>, <<9>>}

Docs(pool, n) == UNION {[1..k -> pool] : k \in 0..n}

\* the text of a file with the given lines
RECURSIVE JoinLines(_)
JoinLines(ls) ==
    IF ls = <<>> THEN <<>>
    ELSE IF Len(ls) = 1 THEN ls[1]
    ELSE ls[1] \o <<NL>> \o JoinLines(Tail(ls))

EmptyTable == [n \in {} |-> <<>>]

InitRun ==
    /\ pc = "start"
    /\ lines = <<>>
    /\ idx = 0
    /\ pages = EmptyTable
    /\ pageKeys = <<>>
    /\ current_page = <<>>
    /\ out = <<>>
    /\ clipboard = <<>>
    /\ exitCode = 0

Init ==
    /\ exists \in BOOLEAN
    /\ argList \in BOOLEAN
    /\ argPage \in PageArgs
    /\ IF exists
       THEN \E ls \in Docs(MainPool, MaxMainLines) : content = JoinLines(ls)
       ELSE content = <<>>
    /\ InitRun

\* parse_script called on an existing file
InitParse ==
    /\ exists = TRUE
    /\ argList = FALSE
    /\ argPage = <<>>
    /\ \E ls \in Docs(ParsePool, MaxLines) : content = JoinLines(ls)
    /\ InitRun

-----------------------------------------------------------------------------
(* main, up to the call of parse_script *)

FileNotFound ==
    /\ pc = "start"
    /\ ~exists
    /\ out' = Append(out, Msg("FileNotFound", 0, 0, <<>>, <<>>))
    /\ exitCode' = 1
    /\ pc' = "done"
    /\ UNCHANGED <<argVars, parseVars, clipboard>>

\* parse_script: read the file, split it into lines
ReadScript ==
    /\ pc = "start"
    /\ exists
    /\ lines' = Split(content)
    /\ idx' = 1
    /\ pages' = EmptyTable
    /\ pageKeys' = <<>>
    /\ current_page' = <<>>
    /\ pc' = "parse"
    /\ UNCHANGED <<argVars, out, clipboard, exitCode>>

-----------------------------------------------------------------------------
(* parse_script: one iteration of the for loop *)

InLoop == pc = "parse" /\ idx <= Len(lines)

MarkerLine ==
    /\ InLoop
    /\ PageSearch(lines[idx]) # <<>>
    /\ LET n == PageSearch(lines[idx])[1]
       IN  /\ current_page' = <<n>>
           /\ pages' = AddPage(pages, n)
           /\ pageKeys' = AddKey(pageKeys, n)
    /\ idx' = idx + 1
    /\ UNCHANGED <<argVars, pc, lines, out, clipboard, exitCode>>

SkipBeforeFirstPage ==
    /\ InLoop
    /\ PageSearch(lines[idx]) = <<>>
    /\ current_page = <<>>
    /\ idx' = idx + 1
    /\ UNCHANGED <<argVars, pc, lines, pages, pageKeys, current_page,
                   out, clipboard, exitCode>>

SkipAnnotation ==
    /\ InLoop
    /\ PageSearch(lines[idx]) = <<>>
    /\ current_page # <<>>
    /\ IsAnnotation(lines[idx])
    /\ idx' = idx + 1
    /\ UNCHANGED <<argVars, pc, lines, pages, pageKeys, current_page,
                   out, clipboard, exitCode>>

DialogueLine ==
    /\ InLoop
    /\ PageSearch(lines[idx]) = <<>>
    /\ current_page # <<>>
    /\ ~IsAnnotation(lines[idx])
    /\ DialogueSearch(lines[idx]) # <<>>
    /\ pages' = AppendDialogue(pages, current_page[1], DialogueSearch(lines[idx])[1])
    /\ idx' = idx + 1
    /\ UNCHANGED <<argVars, pc, lines, pageKeys, current_page, out, clipboard,
                   exitCode>>

SkipNoDialogue ==
    /\ InLoop
    /\ PageSearch(lines[idx]) = <<>>
    /\ current_page # <<>>
    /\ ~IsAnnotation(lines[idx])
    /\ DialogueSearch(lines[idx]) = <<>>
    /\ idx' = idx + 1
    /\ UNCHANGED <<argVars, pc, lines, pages, pageKeys, current_page,
                   out, clipboard, exitCode>>

\* return pages
ParseReturn ==
    /\ pc = "parse"
    /\ idx > Len(lines)
    /\ pc' = "parsed"
    /\ UNCHANGED <<argVars, parseVars, out, clipboard, exitCode>>

-----------------------------------------------------------------------------
(* main, after parse_script *)

NoPagesFound ==
    /\ pc = "parsed"
    /\ pageKeys = <<>>
    /\ out' = Append(out, Msg("NoPagesFound", 0, 0, <<>>, <<>>))
    /\ exitCode' = 1
    /\ pc' = "done"
    /\ UNCHANGED <<argVars, parseVars, clipboard>>

\* the list test placed before the test of an empty table
ListModeBeforeCheck ==
    /\ pc = "parsed"
    /\ argList
    /\ out' = out \o ListPagesOutput(pages, pageKeys)
    /\ pc' = "done"
    /\ UNCHANGED <<argVars, parseVars, clipboard, exitCode>>

\* list_pages(pages); return
ListMode ==
    /\ pc = "parsed"
    /\ pageKeys # <<>>
    /\ argList
    /\ out' = out \o ListPagesOutput(pages, pageKeys)
    /\ pc' = "done"
    /\ UNCHANGED <<argVars, parseVars, clipboard, exitCode>>

MissingMode ==
    /\ pc = "parsed"
    /\ pageKeys # <<>>
    /\ ~argList
    /\ argPage = <<>>
    /\ out' = out \o <<Msg("MissingMode", 0, 0, <<>>, <<>>),
                       Msg("Help", 0, 0, <<>>, <<>>)>>
    /\ exitCode' = 1
    /\ pc' = "done"
    /\ UNCHANGED <<argVars, parseVars, clipboard>>

InCopy == pc = "parsed" /\ pageKeys # <<>> /\ ~argList /\ argPage # <<>>

\* the empty page reported without sys.exit(1): the copy goes on
CopyPageEmptyNoExit ==
    /\ InCopy
    /\ argPage[1] \in DOMAIN pages
    /\ pages[argPage[1]] = <<>>
    /\ clipboard' = Append(clipboard, <<>>)
    /\ out' = out \o <<Msg("PageHasNoDialogue", argPage[1], 0, <<>>, <<>>),
                       Msg("Copied", argPage[1], 0, <<>>, <<>>),
                       Msg("CopiedText", 0, 0, <<>>, <<>>),
                       Msg("CopyDone", 0, 0, <<>>, <<>>)>>
    /\ pc' = "done"
    /\ UNCHANGED <<argVars, parseVars, exitCode>>

\* copy_page_dialogues: page_num not in pages
CopyPageNotFound ==
    /\ InCopy
    /\ argPage[1] \notin DOMAIN pages
    /\ out' = out \o <<Msg("PageNotFound", argPage[1], 0, <<>>, <<>>),
                       Msg("Available", 0, 0, Sorted(pageKeys), <<>>)>>
    /\ exitCode' = 1
    /\ pc' = "done"
    /\ UNCHANGED <<argVars, parseVars, clipboard>>

\* copy_page_dialogues: not dialogues
CopyPageEmpty ==
    /\ InCopy
    /\ argPage[1] \in DOMAIN pages
    /\ pages[argPage[1]] = <<>>
    /\ out' = Append(out, Msg("PageHasNoDialogue", argPage[1], 0, <<>>, <<>>))
    /\ exitCode' = 1
    /\ pc' = "done"
    /\ UNCHANGED <<argVars, parseVars, clipboard>>

CopyPage ==
    /\ InCopy
    /\ argPage[1] \in DOMAIN pages
    /\ pages[argPage[1]] # <<>>
    /\ LET dialogues == pages[argPage[1]]
           all_text == JoinDialogues(dialogues)
       IN  /\ clipboard' = Append(clipboard, all_text)
           /\ out' = out \o <<Msg("Copied", argPage[1], Len(dialogues), <<>>, <<>>),
                              Msg("CopiedText", 0, 0, <<>>, all_text),
                              Msg("CopyDone", 0, 0, <<>>, <<>>)>>
    /\ pc' = "done"
    /\ UNCHANGED <<argVars, parseVars, exitCode>>

-----------------------------------------------------------------------------

NextParse ==
    \/ ReadScript
    \/ MarkerLine
    \/ SkipBeforeFirstPage
    \/ SkipAnnotation
    \/ DialogueLine
    \/ SkipNoDialogue
    \/ ParseReturn

Next ==
    \/ FileNotFound
    \/ ReadScript
    \/ MarkerLine
    \/ SkipBeforeFirstPage
    \/ SkipAnnotation
    \/ DialogueLine
    \/ SkipNoDialogue
    \/ ParseReturn
    \/ NoPagesFound
    \/ ListMode
    \/ MissingMode
    \/ CopyPageNotFound
    \/ CopyPageEmpty
    \/ CopyPage

Spec == Init /\ [][Next]_vars

SpecParse == InitParse /\ [][NextParse]_vars

-----------------------------------------------------------------------------
(* What the properties are stated with: the script format, read off a line *)

Min(S) == CHOOSE x \in S : \A y \in S : x <= y
Max(S) == CHOOSE x \in S : \A y \in S : x >= y

\* the positions of a line at which a page marker stands
MarkerAt(line) == {i \in 1..Len(line) : PageMatchAt(line, i) # <<>>}
HasMarker(line) == MarkerAt(line) # {}
MarkerNumbers(line) == {PageMatchAt(line, i)[1] : i \in MarkerAt(line)}
LeftmostNumber(line) == PageMatchAt(line, Min(MarkerAt(line)))[1]

\* the first character that is not whitespace is a fullwidth ( or a [
StartsAnnotation(line) ==
    \E i \in 1..Len(line) :
        /\ line[i] \in {FP, "["}
        /\ \A j \in 1..(i - 1) : line[j] \in {" ", IS}

\* c closes the quotation opened at o, and the quotation is not empty
Closes(line, o, c) ==
    /\ c >= o + 2
    /\ line[c] = CQ
    /\ \A k \in (o + 1)..(c - 1) : line[k] # CQ

\* the open-quotes of the well-formed quoted spans that follow a label
Opens(line) ==
    {o \in 2..Len(line) :
        line[o] = OQ /\ \E c \in 1..Len(line) : Closes(line, o, c)}

SpanAt(line, o) ==
    SubSeq(line, o + 1, (CHOOSE c \in 1..Len(line) : Closes(line, o, c)) - 1)

Spans(line) == {SpanAt(line, o) : o \in Opens(line)}
FirstSpan(line) == SpanAt(line, Min(Opens(line)))
LastSpan(line) == SpanAt(line, Max(Opens(line)))

\* the page that is active when line l of ls is reached: <<>> for none
Cursor(ls, l) ==
    LET ms == {j \in 1..(l - 1) : HasMarker(ls[j])}
    IN  IF ms = {} THEN <<>> ELSE <<LeftmostNumber(ls[Max(ms)])>>

\* line l of ls is a dialogue line of page p
Contributes(ls, l, p) ==
    /\ ~HasMarker(ls[l])
    /\ Cursor(ls, l) = <<p>>
    /\ ~StartsAnnotation(ls[l])
    /\ Opens(ls[l]) # {}

\* the dialogues of page p in the first n lines of ls, in line order, each
\* line giving the one dialogue the search of the line extracts
RECURSIVE DialoguesOf(_, _, _)
DialoguesOf(ls, p, n) ==
    IF n = 0 THEN <<>>
    ELSE DialoguesOf(ls, p, n - 1)
         \o (IF Contributes(ls, n, p) THEN DialogueSearch(ls[n]) ELSE <<>>)

Parsing == pc \in {"parse", "parsed"}
Range(f) == {f[i] : i \in DOMAIN f}

-----------------------------------------------------------------------------
(* C1 *)

\* C1 (as claimed): after parse_script the keys of the page table are exactly
\* the numbers of all the page markers that appear anywhere in the document.
C1_KeysAreAllMarkerNumbers ==
    pc = "parsed" =>
        DOMAIN pages = UNION {MarkerNumbers(lines[l]) : l \in 1..Len(lines)}

\* C1 (amended): the keys of the page table are exactly the numbers of the
\* leftmost page marker of each line that holds a marker; a number that appears
\* only in a later marker of a line is no key.  It holds after every line.
C1_KeysAreLeftmostMarkerNumbers ==
    Parsing =>
        /\ DOMAIN pages =
              {LeftmostNumber(lines[l]) :
                  l \in {j \in 1..(idx - 1) : HasMarker(lines[j])}}
        /\ Range(pageKeys) = DOMAIN pages
        /\ Cardinality(DOMAIN pages) = Len(pageKeys)

C1_Witness ==
    /\ pc = "parsed"
    /\ \E l \in 1..Len(lines) : Cardinality(MarkerNumbers(lines[l])) >= 2
    /\ Cardinality(DOMAIN pages) >= 2
    /\ \E p \in DOMAIN pages : pages[p] = <<>>

-----------------------------------------------------------------------------
(* C2 *)

\* C2: the sequence of every page is, in line order, the dialogues of the lines
\* that belong to that page, and a line before the first page marker gives none.
C2_DialoguesInLineOrder ==
    pc = "parsed" =>
        \A p \in DOMAIN pages : pages[p] = DialoguesOf(lines, p, Len(lines))

C2_Witness ==
    /\ pc = "parsed"
    /\ ~HasMarker(lines[1]) /\ Opens(lines[1]) # {} /\ ~StartsAnnotation(lines[1])
    /\ \E p \in DOMAIN pages :
          /\ Len(pages[p]) >= 2
          /\ pages[p][1] # pages[p][2]

-----------------------------------------------------------------------------
(* C3 *)

\* the loop is at a dialogue line with several quoted spans
SeveralSpans ==
    /\ InLoop
    /\ ~HasMarker(lines[idx])
    /\ ~StartsAnnotation(lines[idx])
    /\ current_page # <<>>
    /\ Cardinality(Opens(lines[idx])) >= 2

\* C3 (as claimed): a dialogue line with several quoted spans appends exactly
\* one dialogue, the text of the first well-formed span after the label.
C3_FirstSpanIsExtracted ==
    [][SeveralSpans =>
          pages' = [pages EXCEPT ![current_page[1]] =
                       Append(@, FirstSpan(lines[idx]))]]_vars

\* What the code does at such a line: it appends exactly one dialogue, the
\* text of the last well-formed span of the line.
C3_LastSpanIsExtracted ==
    [][SeveralSpans =>
          pages' = [pages EXCEPT ![current_page[1]] =
                       Append(@, LastSpan(lines[idx]))]]_vars

C3_Witness ==
    /\ Parsing
    /\ idx > 1
    /\ ~HasMarker(lines[idx - 1])
    /\ ~StartsAnnotation(lines[idx - 1])
    /\ Cursor(lines, idx - 1) # <<>>
    /\ Cardinality(Opens(lines[idx - 1])) >= 2
    /\ FirstSpan(lines[idx - 1]) # LastSpan(lines[idx - 1])
    /\ LET ds == pages[current_page[1]]
       IN  ds # <<>> /\ ds[Len(ds)] = LastSpan(lines[idx - 1])

-----------------------------------------------------------------------------
(* C4 *)

\* C4: a line whose trimmed content starts with a fullwidth ( or a [ appends
\* no dialogue to any page, whatever else the line holds.
C4_AnnotationAppendsNothing ==
    [][(InLoop /\ StartsAnnotation(lines[idx])) =>
          \A p \in DOMAIN pages' :
              pages'[p] = IF p \in DOMAIN pages THEN pages[p] ELSE <<>>]_vars

C4_Witness ==
    /\ Parsing
    /\ idx > 1
    /\ StartsAnnotation(lines[idx - 1])
    /\ lines[idx - 1][1] \in {" ", IS}
    /\ Opens(lines[idx - 1]) # {}
    /\ ~HasMarker(lines[idx - 1])
    /\ Cursor(lines, idx - 1) # <<>>

-----------------------------------------------------------------------------
(* C9 *)

\* C9 (as claimed): a line whose trimmed content starts with a fullwidth ( or
\* a [ leaves the page table and the current-page cursor unchanged.
C9_AnnotationChangesNothing ==
    [][(InLoop /\ StartsAnnotation(lines[idx])) =>
          /\ pages' = pages
          /\ pageKeys' = pageKeys
          /\ current_page' = current_page]_vars

\* C9 (amended): such a line leaves the page table and the cursor unchanged
\* unless it holds a page marker; with a marker it is a marker line: the cursor
\* moves to that page, the page becomes a key, and no sequence changes.
C9_AnnotationWithoutMarkerChangesNothing ==
    [][(InLoop /\ StartsAnnotation(lines[idx])) =>
          IF HasMarker(lines[idx])
          THEN /\ current_page' = <<LeftmostNumber(lines[idx])>>
               /\ DOMAIN pages' = DOMAIN pages \cup {LeftmostNumber(lines[idx])}
               /\ \A p \in DOMAIN pages : pages'[p] = pages[p]
          ELSE /\ pages' = pages
               /\ pageKeys' = pageKeys
               /\ current_page' = current_page]_vars

C9_Witness ==
    /\ Parsing
    /\ idx > 2
    /\ StartsAnnotation(lines[idx - 2]) /\ HasMarker(lines[idx - 2])
    /\ StartsAnnotation(lines[idx - 1]) /\ ~HasMarker(lines[idx - 1])
    /\ lines[idx - 1][1] = IS
    /\ current_page = <<LeftmostNumber(lines[idx - 2])>>
    /\ pages[current_page[1]] = <<>>

-----------------------------------------------------------------------------
(* C8 *)

\* C8: a marker of a page that is already a key changes no sequence and no
\* key, it only makes that page current; and a dialogue line appends its
\* dialogue after the dialogues the current page already holds.
C8_ReentryKeepsDialogues ==
    [][InLoop =>
          IF HasMarker(lines[idx])
          THEN LeftmostNumber(lines[idx]) \in DOMAIN pages =>
                  /\ pages' = pages
                  /\ pageKeys' = pageKeys
                  /\ current_page' = <<LeftmostNumber(lines[idx])>>
          ELSE pages' # pages =>
                  \E d \in Spans(lines[idx]) :
                      pages' = [pages EXCEPT ![current_page[1]] = Append(@, d)]]_vars

C8_Witness ==
    /\ Parsing
    /\ idx = 5
    /\ HasMarker(lines[1]) /\ HasMarker(lines[3])
    /\ LeftmostNumber(lines[1]) = LeftmostNumber(lines[3])
    /\ Contributes(lines, 2, LeftmostNumber(lines[1]))
    /\ Contributes(lines, 4, LeftmostNumber(lines[1]))
    /\ Len(pages[LeftmostNumber(lines[1])]) = 2
    /\ pages[LeftmostNumber(lines[1])][1] \in Spans(lines[2])
    /\ pages[LeftmostNumber(lines[1])][2] \in Spans(lines[4])
    /\ Spans(lines[2]) \cap Spans(lines[4]) = {}

-----------------------------------------------------------------------------
(* C5 *)

\* the run reached copy_page_dialogues and ended
CopyRun ==
    /\ pc = "done"
    /\ exists
    /\ DOMAIN pages # {}
    /\ ~argList
    /\ argPage # <<>>

IsAscending(s) == \A i \in 1..(Len(s) - 1) : s[i] < s[i + 1]

\* where dialogue i starts in the joined text, less one
RECURSIVE Offset(_, _)
Offset(ds, i) ==
    IF i = 1 THEN 0 ELSE Offset(ds, i - 1) + Len(ds[i - 1]) + 2

\* t is the dialogues ds, in order, with two line feeds between neighbours
IsJoined(t, ds) ==
    /\ Len(t) = Offset(ds, Len(ds)) + Len(ds[Len(ds)])
    /\ \A i \in 1..Len(ds) :
          /\ SubSeq(t, Offset(ds, i) + 1, Offset(ds, i) + Len(ds[i])) = ds[i]
          /\ i < Len(ds) =>
                /\ t[Offset(ds, i) + Len(ds[i]) + 1] = NL
                /\ t[Offset(ds, i) + Len(ds[i]) + 2] = NL

-----------------------------------------------------------------------------
(* C6 *)

\* the run is a single-page copy of a page that has dialogue
SuccessfulCopy ==
    /\ exists
    /\ ~argList
    /\ argPage # <<>>
    /\ argPage[1] \in DOMAIN pages
    /\ pages[argPage[1]] # <<>>

\* C6: the clipboard is called at most once in a run: exactly once in a
\* successful single-page copy, never in list mode (--page given or not) and
\* never in a run that ends in an error.
C6_ClipboardAtMostOnce ==
    /\ Len(clipboard) <= 1
    /\ pc # "done" => clipboard = <<>>
    /\ pc = "done" =>
          /\ Len(clipboard) = 1 <=> SuccessfulCopy
          /\ argList => clipboard = <<>>
          /\ exitCode # 0 => clipboard = <<>>
          /\ SuccessfulCopy => exitCode = 0

C6_Witness ==
    /\ pc = "done"
    /\ argList
    /\ argPage # <<>>
    /\ argPage[1] \in DOMAIN pages
    /\ pages[argPage[1]] # <<>>
    /\ clipboard = <<>>
    /\ exitCode = 0

-----------------------------------------------------------------------------
(* C7 *)

\* the file exists and no line of it holds a page marker
NoMarkerInDocument ==
    /\ exists
    /\ \A l \in 1..Len(Split(content)) : ~HasMarker(Split(content)[l])

\* C7: for an existing file without a page marker the page table is empty and
\* main reports NoPagesFound, with a status that is not zero, whatever the
\* mode: no list, no missing-mode error and no copy happen.
C7_NoMarkerMeansNoPagesFound ==
    NoMarkerInDocument =>
        /\ pc \in {"parsed", "done"} => pages = EmptyTable
        /\ pc = "done" =>
              /\ Len(out) = 1
              /\ out[1].kind = "NoPagesFound"
              /\ exitCode # 0
              /\ clipboard = <<>>

C7_Witness ==
    /\ pc = "done"
    /\ NoMarkerInDocument
    /\ argList
    /\ argPage # <<>>
    /\ \E l \in 1..Len(lines) : Opens(lines[l]) # {} /\ ~StartsAnnotation(lines[l])
    /\ out[1].kind = "NoPagesFound"

-----------------------------------------------------------------------------
(* C10 *)

\* the number of lines list_pages prints for the pages in S
RECURSIVE Printed(_, _)
Printed(pg, S) ==
    IF S = {} THEN 0
    ELSE LET q == CHOOSE q \in S : TRUE
         IN  1 + Len(pg[q]) + Printed(pg, S \ {q})

\* where the line of page p stands in the output of list mode
HeaderPos(p) == 2 + Printed(pages, {q \in DOMAIN pages : q < p})

\* a dialogue as list mode shows it
Shown(d) ==
    IF Len(d) <= DisplayMax THEN d
    ELSE [i \in 1..(DisplayMax + 3) |-> IF i <= DisplayMax THEN d[i] ELSE "."]

\* C10: list mode prints the pages in ascending order of page number, each
\* with its count and its dialogues, a dialogue of more than 30 characters as
\* its first 30 characters and "...", and the page table keeps every dialogue
\* in full.
C10_ListAscendingAndTruncated ==
    (pc = "done" /\ exists /\ argList /\ DOMAIN pages # {}) =>
        /\ Len(out) = 1 + Printed(pages, DOMAIN pages)
        /\ \A p \in DOMAIN pages :
              /\ out[HeaderPos(p)].kind = "ListPage"
              /\ out[HeaderPos(p)].page = p
              /\ out[HeaderPos(p)].count = Len(pages[p])
              /\ \A i \in 1..Len(pages[p]) :
                    /\ out[HeaderPos(p) + i].kind = "ListItem"
                    /\ out[HeaderPos(p) + i].count = i
                    /\ out[HeaderPos(p) + i].text = Shown(pages[p][i])
              /\ pages[p] = DialoguesOf(lines, p, Len(lines))

C10_Witness ==
    /\ pc = "done"
    /\ argList
    /\ Len(pageKeys) >= 2
    /\ pageKeys[1] > pageKeys[2]
    /\ \E p \in DOMAIN pages :
          /\ pages[p] # <<>>
          /\ Len(pages[p][1]) > DisplayMax
          /\ Len(out[HeaderPos(p) + 1].text) = DisplayMax + 3

=============================================================================
